---- MODULE Spec2Model ----
(***************************************************************************)
(* tilesettool (tapule/mdtools): a state-machine model of                  *)
(* src/tilesettool/src/tilesettool.c.                                      *)
(*                                                                         *)
(* Bytes are naturals 0..255, buffers are records [null, bytes] (a NULL    *)
(* pointer has null = TRUE), C strings are sequences of one-character      *)
(* strings.  A read outside a buffer is undefined behaviour: it yields a   *)
(* byte chosen nondeterministically (the parameter junk).                  *)
(***************************************************************************)
EXTENDS Integers, Sequences, FiniteSets, TLC

(***************************************************************************)
(* Bounds of the model.                                                    *)
(***************************************************************************)
\* largest image side, in tiles, whose pixels are enumerated
MaxTiles == 2
\* number of pixel patterns an enumerated image is filled with
MaxPattern == 2
\* most pixel pairs of a raw buffer handed directly to image_to_4bpp
MaxPairs == 2
\* most directory entries readdir returns in one run
MaxEntries == 3
\* capacity of the catalog; tilesettool.c:63 sets 512, scaled down here
MAX_TILESETS == 2

(***************************************************************************)
(* Integer widths and bit operators of C.                                  *)
(***************************************************************************)
U8(x) == x % 256
U16(x) == x % 65536
\* uint32_t: every integer TLC evaluates is below 2^31 (it stops with an
\* error on a larger one, it never wraps), so no value reaches 2^32 here
U32(x) == x

RECURSIVE BitAnd(_, _)
BitAnd(a, b) ==
    IF a = 0 \/ b = 0 THEN 0
    ELSE (a % 2) * (b % 2) + 2 * BitAnd(a \div 2, b \div 2)

RECURSIVE BitOr(_, _)
BitOr(a, b) ==
    IF a = 0 THEN b
    ELSE IF b = 0 THEN a
    ELSE (IF a % 2 = 1 \/ b % 2 = 1 THEN 1 ELSE 0)
         + 2 * BitOr(a \div 2, b \div 2)

RECURSIVE Pow2(_)
Pow2(n) == IF n = 0 THEN 1 ELSE 2 * Pow2(n - 1)

Shl(a, n) == a * Pow2(n)

(***************************************************************************)
(* Buffers.                                                                *)
(***************************************************************************)
NULL == [null |-> TRUE, bytes |-> << >>]
Buf(s) == [null |-> FALSE, bytes |-> s]

\* p[k] for a pointer p to the start of buffer b (k counted from 0)
Rd(b, k, junk) == IF k < Len(b.bytes) THEN b.bytes[k + 1] ELSE junk

\* malloc(n): a buffer of n bytes, or NULL
Malloc(ok) == ok

(***************************************************************************)
(* image_to_4bpp: two 8bpp bytes become one 4bpp byte.                     *)
(***************************************************************************)
Pack4bppSwapped(src0, src1) ==
    U8(BitOr(Shl(BitAnd(src1, 15), 4), Shl(BitAnd(src0, 15), 0)))

Pack4bpp(src0, src1) ==
    U8(BitOr(Shl(BitAnd(src0, 15), 4), Shl(BitAnd(src1, 15), 0)))

image_to_4bpp(image, size, ok, junk) ==
    IF ~Malloc(ok) THEN NULL
    ELSE Buf([i \in 1..(size \div 2) |->
                Pack4bpp(Rd(image, 2 * (i - 1), junk),
                         Rd(image, 2 * (i - 1) + 1, junk))])

(***************************************************************************)
(* image_4bpp_to_tile: raster order to tile order.                         *)
(***************************************************************************)
TilePitchWide(tile_width) == U32(tile_width * 8)

TilePitch(tile_width) == U32(tile_width * 4)

TileOriginNoRow(tile_y, tile_x, pitch) == U32(U32(tile_y * pitch) + U32(tile_x * 4))

TileOrigin(tile_y, tile_x, pitch) == U32(U32(U32(tile_y * 8) * pitch) + U32(tile_x * 4))

\* the loop over tile_row: 8 rows of 4 bytes, image_p advancing by pitch
RECURSIVE TileRows(_, _, _, _, _)
TileRows(image, image_p, pitch, tile_row, junk) ==
    IF tile_row >= 8 THEN << >>
    ELSE << Rd(image, image_p, junk), Rd(image, image_p + 1, junk),
            Rd(image, image_p + 2, junk), Rd(image, image_p + 3, junk) >>
         \o TileRows(image, image_p + pitch, pitch, tile_row + 1, junk)

\* the loop over tile_x
RECURSIVE TileCols(_, _, _, _, _, _)
TileCols(image, tile_y, tile_x, tile_width, pitch, junk) ==
    IF tile_x >= tile_width THEN << >>
    ELSE TileRows(image, TileOrigin(tile_y, tile_x, pitch), pitch, 0, junk)
         \o TileCols(image, tile_y, tile_x + 1, tile_width, pitch, junk)

\* the loop over tile_y
RECURSIVE TileLines(_, _, _, _, _, _)
TileLines(image, tile_y, tile_height, tile_width, pitch, junk) ==
    IF tile_y >= tile_height THEN << >>
    ELSE TileCols(image, tile_y, 0, tile_width, pitch, junk)
         \o TileLines(image, tile_y + 1, tile_height, tile_width, pitch, junk)

image_4bpp_to_tile(image, width, height, ok, junk) ==
    LET tile_width == width \div 8
        tile_height == height \div 8
        pitch == TilePitch(tile_width)
    IN  IF ~Malloc(ok) THEN NULL
        ELSE Buf(TileLines(image, 0, tile_height, tile_width, pitch, junk))

(***************************************************************************)
(* Input domains.                                                          *)
(***************************************************************************)
Dims == {8 * k : k \in 1..MaxTiles}
Patterns == 0..(MaxPattern - 1)
TestBytes == {0, 15, 240, 255, 165}
JunkBytes == {0, 238}

\* byte i of a buffer filled with pattern p.  Pattern 0 is i itself, so
\* the bytes of a buffer of up to 256 bytes all differ; the others vary in
\* both nibbles with the position in a row and with the row
PatByte(p, i) ==
    U8(i * (2 * p + 1) + p * ((i \div 16) * 3 + (i \div 64) * 5 + 7))

PatBuf(n, p) == [i \in 1..n |-> PatByte(p, i - 1)]


(***************************************************************************)
(* C strings.                                                              *)
(***************************************************************************)
ToUpper(c) ==
    CASE c = "a" -> "A" [] c = "b" -> "B" [] c = "c" -> "C"
      [] c = "p" -> "P" [] c = "t" -> "T" [] OTHER -> c

strtoupper(str) == [i \in 1..Len(str) |-> ToUpper(str[i])]

\* strrchr(str, c): position of the last c in str, 0 when there is none
strrchr(str, c) ==
    IF \E i \in 1..Len(str) : str[i] = c
    THEN CHOOSE i \in 1..Len(str) :
            str[i] = c /\ \A j \in (i + 1)..Len(str) : str[j] # c
    ELSE 0

\* the name without the extension: cut at the last '.'
StripExt(file) ==
    LET file_ext == strrchr(file, ".")
    IN  IF file_ext # 0 THEN SubSeq(file, 1, file_ext - 1) ELSE file

(***************************************************************************)
(* The decoded image (lodepng, color_convert = false).                     *)
(***************************************************************************)
LCT_GREY == "LCT_GREY"
LCT_RGB == "LCT_RGB"
LCT_PALETTE == "LCT_PALETTE"

Channels(colortype) == IF colortype = LCT_RGB THEN 3 ELSE 1

\* lodepng_get_raw_size: bytes of the decoded pixel buffer
RawSize(e) ==
    (e.width * e.height * Channels(e.colortype) * e.bitdepth + 7) \div 8

ImageData(e) == Buf(PatBuf(RawSize(e), e.pat))

(***************************************************************************)
(* tileset_read.                                                           *)
(***************************************************************************)
MsgDecode == "Skiping file: lodepng error"
MsgIndexed == "Skiping file: The image must be in indexed color mode"
MsgDepth == "Skiping file: %d bpp not suported. Only 4bpp and 8bpp png files supported"
MsgColors == "Skiping file: More than 16 colors png image detected."
MsgWidth == "Skiping file: Image width is not multiple of 8."
MsgHeight == "Skiping file: Image height is not multiple of 8."
Msg4bpp == "Error: Can't conver image to 4bpp."
MsgNone == ""

\* a mutant of Validate: the dimension checks run before the colour checks
ValidateDimsFirst(e) ==
    IF e.width % 8 # 0 THEN MsgWidth
    ELSE IF e.height % 8 # 0 THEN MsgHeight
    ELSE IF e.colortype # LCT_PALETTE THEN MsgIndexed
    ELSE IF e.bitdepth # 4 /\ e.bitdepth # 8 THEN MsgDepth
    ELSE IF e.palettesize > 16 THEN MsgColors
    ELSE MsgNone

\* the five checks of tileset_read, in order; MsgNone when all pass
Validate(e) ==
    IF e.colortype # LCT_PALETTE THEN MsgIndexed
    ELSE IF e.bitdepth # 4 /\ e.bitdepth # 8 THEN MsgDepth
    ELSE IF e.palettesize > 16 THEN MsgColors
    ELSE IF e.width % 8 # 0 THEN MsgWidth
    ELSE IF e.height % 8 # 0 THEN MsgHeight
    ELSE MsgNone

\* the size handed to image_to_4bpp
NormalizeSize(image_width, image_height) == U32(image_width * image_width)

\* tilesets[i].size, a uint16_t
TilesetSize(image_width, image_height) ==
    U16(U32((image_width \div 8) * (image_height \div 8)))

ZeroTileset ==
    [file |-> << >>, name |-> << >>, size_define |-> << >>,
     data |-> NULL, size |-> 0]

(***************************************************************************)
(* The heap traffic of tileset_read, in program order.  An event names the *)
(* allocation it touches: "image_data" is the buffer lodepng_decode        *)
(* returns, "image_4bpp" the one image_to_4bpp mallocs, "tiles" the one    *)
(* image_4bpp_to_tile mallocs.  n is the length of an allocation and, for  *)
(* a read or a write, one more than the largest offset touched.            *)
(***************************************************************************)
Ev(op, buf, n) == [op |-> op, buf |-> buf, n |-> n]

\* image_to_4bpp: malloc(size / 2), then size / 2 times read src[0] and
\* src[1], write *dest, src += 2
Heap4bpp(size, ok) ==
    IF ~Malloc(ok) THEN << >>
    ELSE << Ev("alloc", "image_4bpp", size \div 2) >>
         \o (IF size \div 2 > 0
             THEN << Ev("read", "image_data", 2 * ((size \div 2) - 1) + 2),
                     Ev("write", "image_4bpp", size \div 2) >>
             ELSE << >>)

\* the offsets image_4bpp_to_tile reads: image_p[0..3], image_p going from
\* the tile's origin by pitch for 8 rows
TileReadOffsets(width, height) ==
    LET tile_width == width \div 8
        tile_height == height \div 8
        pitch == TilePitch(tile_width)
    IN  { TileOrigin(tile_y, tile_x, pitch) + tile_row * pitch + b :
            tile_y \in 0..(tile_height - 1), tile_x \in 0..(tile_width - 1),
            tile_row \in 0..7, b \in 0..3 }

\* one more than the largest element of a set of offsets, 0 when empty
EndOf(offsets) ==
    IF offsets = {} THEN 0
    ELSE 1 + (CHOOSE m \in offsets : \A k \in offsets : k <= m)

\* image_4bpp_to_tile reading the allocation src: malloc(tile_width *
\* tile_height * 32), then per tile row 4 reads and 4 writes, tiles_p += 4
HeapTile(src, width, height, ok) ==
    IF ~Malloc(ok) THEN << >>
    ELSE << Ev("alloc", "tiles", U32((width \div 8) * (height \div 8) * 32)),
            Ev("read", src, EndOf(TileReadOffsets(width, height))),
            Ev("write", "tiles", (width \div 8) * (height \div 8) * 8 * 4) >>

\* the result of tileset_read: its return value, the diagnostic it printed,
\* the catalog it leaves and its heap traffic
tileset_read(e, tileset_index, ts, okN, okT, junk) ==
    IF e.error # 0
    THEN [ret |-> e.error, msg |-> MsgDecode, tilesets |-> ts, heap |-> << >>]
    ELSE IF Validate(e) # MsgNone
    THEN [ret |-> 1, msg |-> Validate(e), tilesets |-> ts,
          heap |-> << Ev("alloc", "image_data", RawSize(e)) >>]
    ELSE
      LET image_data == ImageData(e)
          image_4bpp ==
              IF e.bitdepth = 8
              THEN image_to_4bpp(image_data,
                                 NormalizeSize(e.width, e.height), okN, junk)
              ELSE image_data
          \* the allocation the pointer image_4bpp designates
          src == IF e.bitdepth = 8 THEN "image_4bpp" ELSE "image_data"
          decoded == << Ev("alloc", "image_data", RawSize(e)) >>
          normalized ==
              IF e.bitdepth = 8
              THEN Heap4bpp(NormalizeSize(e.width, e.height), okN)
                   \o << Ev("free", "image_data", 0) >>
              ELSE << >>
      IN  IF image_4bpp.null
          THEN [ret |-> 1, msg |-> Msg4bpp, tilesets |-> ts,
                heap |-> decoded \o normalized]
          ELSE [ret |-> 0, msg |-> MsgNone,
                tilesets |-> [ts EXCEPT ![tileset_index] =
                    [@ EXCEPT
                       !.data = image_4bpp_to_tile(image_4bpp, e.width,
                                                   e.height, okT, junk),
                       !.file = e.d_name,
                       !.size = TilesetSize(e.width, e.height),
                       !.name = StripExt(e.d_name)]],
                heap |-> decoded \o normalized
                         \o HeapTile(src, e.width, e.height, okT)
                         \o << Ev("free", src, 0) >>]

(***************************************************************************)
(* State of a run of main, and of a direct call of one of the functions.   *)
(***************************************************************************)
VARIABLES
    pc,             \* position in main
    dest_name,      \* params.dest_name
    use_prefix,     \* main's use_prefix
    nread,          \* entries readdir has returned so far
    cur,            \* the directory entry or file last handed to the loop
    last,           \* return value and diagnostic of the last tileset_read
    heap,           \* heap traffic of the last tileset_read
    passed,         \* files that decoded and passed validation, in order
    tileset_index,  \* main's tileset_index
    tilesets,       \* the global catalog
    h_file,         \* the header file: "unopened", "failed", "written"
    c_file,         \* the source file: "unopened", "failed", "written"
    c_out,          \* per tileset, the bytes build_source_file rendered
    null_read,      \* build_source_file read through a NULL data pointer
    exit_status,    \* "running", "EXIT_SUCCESS", "EXIT_FAILURE", "SIGSEGV"
    capacity_error, \* the 'More than %d files' error was raised
    fn_op,          \* the function called directly, "none" before the call
    fn_in,          \* its input buffer
    fn_w,           \* its width argument
    fn_h,           \* its height argument
    fn_out,         \* its result, when a buffer
    fn_size         \* its result, when a number

main_vars == << pc, dest_name, use_prefix, nread, cur, last, heap, passed,
                tileset_index, tilesets, h_file, c_file, c_out, null_read,
                exit_status, capacity_error >>
fn_vars == << fn_op, fn_in, fn_w, fn_h, fn_out, fn_size >>
vars == << pc, dest_name, use_prefix, nread, cur, last, heap, passed,
           tileset_index, tilesets, h_file, c_file, c_out, null_read,
           exit_status, capacity_error, fn_op, fn_in, fn_w, fn_h, fn_out,
           fn_size >>

(***************************************************************************)
(* Directory entries and files.                                            *)
(***************************************************************************)
NoEntry ==
    [d_type |-> "none", d_name |-> << >>, error |-> 0,
     colortype |-> LCT_PALETTE, bitdepth |-> 4, palettesize |-> 0,
     width |-> 0, height |-> 0, pat |-> 0]

Entry(t, n, err, ct, bd, ps, w, h, p) ==
    [d_type |-> t, d_name |-> n, error |-> err, colortype |-> ct,
     bitdepth |-> bd, palettesize |-> ps, width |-> w, height |-> h,
     pat |-> p]

Names == { << "a", ".", "p" >>, << "b" >>, << "a", ".", "b", ".", "p" >> }

\* widths and heights a decoded image may have: tile-aligned or not
AnyDims == Dims \cup {d - 3 : d \in Dims}

\* colour type, bit depth and palette size as lodepng may report them
ColorModes ==
    ({LCT_PALETTE} \X {1, 2, 4, 8} \X {16, 17})
    \cup ({LCT_GREY} \X {4, 8} \X {0})
    \cup ({LCT_RGB} \X {8} \X {0})

\* lodepng error 28: incorrect PNG signature
NotPng(n) == Entry("DT_REG", n, 28, LCT_PALETTE, 4, 0, 0, 0, 0)

\* what the single-file run may be given
FileEntries ==
    { Entry("DT_REG", n, 0, m[1], m[2], m[3], w, h, p) :
        n \in Names, m \in ColorModes, w \in AnyDims, h \in AnyDims,
        p \in Patterns }
    \cup { NotPng(n) : n \in Names }

\* what readdir may return: a directory, a file that is no PNG, a 4bpp
\* image, 8bpp images (square and not), and two images the checks reject
DirEntries ==
    { Entry("DT_DIR", << "." >>, 0, LCT_PALETTE, 4, 0, 0, 0, 0),
      NotPng(<< "b" >>),
      Entry("DT_REG", << "a", ".", "p" >>, 0, LCT_PALETTE, 4, 16, 8, 8, 0),
      Entry("DT_REG", << "c", ".", "p" >>, 0, LCT_RGB, 8, 0, 8, 8, 0),
      Entry("DT_REG", << "c", ".", "p" >>, 0, LCT_PALETTE, 4, 16, 5, 8, 0) }
    \cup { Entry("DT_REG", << "a", ".", "b", ".", "p" >>, 0, LCT_PALETTE, 8,
                 16, 8, h, 0) : h \in {8, 16} }

\* the file decodes and passes the five checks
IsSourceImage(e) == e.d_type = "DT_REG" /\ e.error = 0 /\ Validate(e) = MsgNone

\* the outcomes of the malloc of image_to_4bpp, called for 8bpp images only
Allocs4bpp(e) == IF IsSourceImage(e) /\ e.bitdepth = 8 THEN BOOLEAN ELSE {TRUE}

\* the outcomes of the malloc of image_4bpp_to_tile, and the bytes found
\* outside a buffer: both matter only when the image gets that far
AllocsTile(e) == IF IsSourceImage(e) THEN BOOLEAN ELSE {TRUE}
Junk(e) == IF IsSourceImage(e) THEN JunkBytes ELSE {0}


(***************************************************************************)
(* main.                                                                   *)
(***************************************************************************)
Init ==
    /\ pc = "parse_params"
    /\ dest_name = NULL
    /\ use_prefix = TRUE
    /\ nread = 0
    /\ cur = NoEntry
    /\ last = [ret |-> 0, msg |-> MsgNone]
    /\ heap = << >>
    /\ passed = << >>
    /\ tileset_index = 0
    /\ tilesets = [i \in 0..(MAX_TILESETS - 1) |-> ZeroTileset]
    /\ h_file = "unopened"
    /\ c_file = "unopened"
    /\ c_out = << >>
    /\ null_read = FALSE
    /\ exit_status = "running"
    /\ capacity_error = FALSE
    /\ fn_op = "none"
    /\ fn_in = NULL
    /\ fn_w = 0
    /\ fn_h = 0
    /\ fn_out = NULL
    /\ fn_size = 0

\* parse_params and the two early returns of main
ParseParams ==
    /\ pc = "parse_params"
    /\ \E status \in {"PARAMS_ERROR", "PARAMS_STOP", "PARAMS_CONTINUE"},
          dn \in {NULL, Buf(<< "t" >>)} :
          /\ dest_name' = IF status = "PARAMS_CONTINUE" THEN dn ELSE NULL
          /\ pc' = IF status = "PARAMS_CONTINUE" THEN "opendir" ELSE "exit"
          /\ exit_status' = CASE status = "PARAMS_ERROR" -> "EXIT_FAILURE"
                              [] status = "PARAMS_STOP" -> "EXIT_SUCCESS"
                              [] OTHER -> "running"
    /\ UNCHANGED << use_prefix, nread, cur, last, heap,
                    passed, tileset_index,
                    tilesets, h_file, c_file, c_out, null_read,
                    capacity_error >>
    /\ UNCHANGED fn_vars

\* opendir(params.src_path): a directory, or else taken as a file
OpenDir ==
    /\ pc = "opendir"
    /\ \E isdir \in BOOLEAN : pc' = IF isdir THEN "readdir" ELSE "readfile"
    /\ UNCHANGED << dest_name, use_prefix, nread, cur, last, heap,
                    passed,
                    tileset_index, tilesets, h_file, c_file, c_out,
                    null_read, exit_status, capacity_error >>
    /\ UNCHANGED fn_vars

\* !tileset_read(...): the file became a tileset
ReadOkAlways(ret) == TRUE

ReadOk(ret) == ret = 0

\* the check at the top of the readdir loop
AtCapacity(index) == index >= MAX_TILESETS

\* the entry of `passed` for a file that decoded and passed validation:
\* its name, and whether the Depth Normalizer was refused its buffer
PassedFile(e, okN) ==
    [file |-> e.d_name, no4bpp |-> (e.bitdepth = 8 /\ ~okN)]

\* one iteration of the readdir loop
ReadDirEntry ==
    /\ pc = "readdir"
    /\ nread < MaxEntries
    /\ \E e \in DirEntries :
       \E okN \in Allocs4bpp(e), okT \in AllocsTile(e), junk \in Junk(e) :
          LET r == tileset_read(e, tileset_index, tilesets, okN, okT, junk)
          IN  /\ nread' = nread + 1
              /\ cur' = e
              /\ IF AtCapacity(tileset_index)
                 THEN /\ capacity_error' = TRUE
                      /\ exit_status' = "EXIT_FAILURE"
                      /\ pc' = "exit"
                      /\ UNCHANGED << last, heap, passed, tileset_index, tilesets >>
                 ELSE IF e.d_type = "DT_REG"
                 THEN /\ last' = [ret |-> r.ret, msg |-> r.msg]
                      /\ heap' = r.heap
                      /\ tilesets' = r.tilesets
                      /\ tileset_index' = IF ReadOk(r.ret)
                                          THEN U32(tileset_index + 1)
                                          ELSE tileset_index
                      /\ passed' = IF IsSourceImage(e)
                                   THEN Append(passed, PassedFile(e, okN))
                                   ELSE passed
                      /\ UNCHANGED << capacity_error, exit_status, pc >>
                 ELSE UNCHANGED << last, heap, passed, tileset_index, tilesets,
                                   capacity_error, exit_status, pc >>
    /\ UNCHANGED << dest_name, use_prefix, h_file, c_file, c_out, null_read >>
    /\ UNCHANGED fn_vars

\* readdir returns NULL: closedir, '%d tilesets readed'
EndOfDir ==
    /\ pc = "readdir"
    /\ pc' = "summary"
    /\ UNCHANGED << dest_name, use_prefix, nread, cur, last, heap,
                    passed,
                    tileset_index, tilesets, h_file, c_file, c_out,
                    null_read, exit_status, capacity_error >>
    /\ UNCHANGED fn_vars

\* the source path is a single file
ReadFile ==
    /\ pc = "readfile"
    /\ \E e \in FileEntries :
       \E okN \in Allocs4bpp(e), okT \in AllocsTile(e), junk \in Junk(e) :
          LET r == tileset_read(e, tileset_index, tilesets, okN, okT, junk)
          IN  /\ cur' = e
              /\ last' = [ret |-> r.ret, msg |-> r.msg]
              /\ heap' = r.heap
              /\ tilesets' = r.tilesets
              /\ tileset_index' = IF ReadOk(r.ret)
                                  THEN U32(tileset_index + 1)
                                  ELSE tileset_index
              /\ passed' = IF IsSourceImage(e)
                           THEN Append(passed, PassedFile(e, okN))
                           ELSE passed
    /\ pc' = "summary"
    /\ UNCHANGED << dest_name, use_prefix, nread, h_file, c_file, c_out,
                    null_read, exit_status, capacity_error >>
    /\ UNCHANGED fn_vars

\* nothing was read: return EXIT_SUCCESS; else choose the base name
Summary ==
    /\ pc = "summary"
    /\ IF tileset_index > 0
       THEN /\ pc' = "build_header"
            /\ use_prefix' = ~(dest_name.null /\ tileset_index = 1)
            /\ dest_name' = IF ~dest_name.null THEN dest_name
                            ELSE IF tileset_index = 1
                                 THEN Buf(tilesets[0].name)
                                 ELSE Buf(<< "t", "i", "l" >>)
            /\ UNCHANGED exit_status
       ELSE /\ pc' = "exit"
            /\ exit_status' = "EXIT_SUCCESS"
            /\ UNCHANGED << use_prefix, dest_name >>
    /\ UNCHANGED << nread, cur, last, heap,
                    passed, tileset_index, tilesets,
                    h_file, c_file, c_out, null_read, capacity_error >>
    /\ UNCHANGED fn_vars

\* the prefix build_header_file and build_source_file put before a name
Prefix(name, prefix) == IF prefix THEN name \o << "_" >> ELSE << >>

SizeDefine(name, prefix, t) ==
    strtoupper(Prefix(name, prefix) \o t.name \o << "_", "S", "I", "Z", "E" >>)

\* build_header_file; main ignores what it returns
BuildHeader ==
    /\ pc = "build_header"
    /\ \E fopen_ok \in BOOLEAN :
          IF fopen_ok
          THEN /\ h_file' = "written"
               /\ tilesets' = [i \in 0..(MAX_TILESETS - 1) |->
                     IF i < tileset_index
                     THEN [tilesets[i] EXCEPT !.size_define =
                             SizeDefine(dest_name.bytes, use_prefix, tilesets[i])]
                     ELSE tilesets[i]]
          ELSE /\ h_file' = "failed"
               /\ UNCHANGED tilesets
    /\ pc' = "build_source"
    /\ UNCHANGED << dest_name, use_prefix, nread, cur, last, heap,
                    passed,
                    tileset_index, c_file, c_out, null_read, exit_status,
                    capacity_error >>
    /\ UNCHANGED fn_vars

\* the bytes build_source_file reads from one tileset: size tiles of 32
Rendered(t, junk) == [k \in 1..(t.size * 32) |-> Rd(t.data, k - 1, junk)]

\* build_source_file reads through tilesets[i].data for some i
ReadsNull(count) ==
    \E i \in 0..(count - 1) : tilesets[i].data.null /\ tilesets[i].size > 0

\* what main returns after the two build calls
ExitAfterBuild(h, c) == "EXIT_SUCCESS"

\* build_source_file, 'Done.' and the return of main
BuildSource ==
    /\ pc = "build_source"
    /\ \E fopen_ok \in BOOLEAN, crash \in BOOLEAN, junk \in JunkBytes :
          IF ~fopen_ok
          THEN /\ c_file' = "failed"
               /\ exit_status' = ExitAfterBuild(h_file, "failed")
               /\ UNCHANGED << c_out, null_read >>
          ELSE /\ null_read' = ReadsNull(tileset_index)
               /\ IF ReadsNull(tileset_index) /\ crash
                  THEN /\ c_file' = "partial"
                       /\ exit_status' = "SIGSEGV"
                       /\ UNCHANGED c_out
                  ELSE /\ c_file' = "written"
                       /\ exit_status' = ExitAfterBuild(h_file, "written")
                       /\ c_out' = [i \in 1..tileset_index |->
                            [name |-> Prefix(dest_name.bytes, use_prefix)
                                      \o tilesets[i - 1].name,
                             define |-> tilesets[i - 1].size_define,
                             bytes |-> Rendered(tilesets[i - 1], junk)]]
    /\ pc' = "exit"
    /\ UNCHANGED << dest_name, use_prefix, nread, cur, last, heap,
                    passed,
                    tileset_index, tilesets, h_file, capacity_error >>
    /\ UNCHANGED fn_vars

Next ==
    \/ ParseParams
    \/ OpenDir
    \/ ReadDirEntry
    \/ EndOfDir
    \/ ReadFile
    \/ Summary
    \/ BuildHeader
    \/ BuildSource

Spec == Init /\ [][Next]_vars


(***************************************************************************)
(* Direct calls of the functions, on inputs drawn from bounded sets.       *)
(***************************************************************************)
RawSizes == {2 * k : k \in 0..MaxPairs}

\* widths and heights up to and beyond 65535 tiles
BigDims == {8 * k : k \in {1, 2, 255, 256, 257, 512}}

CallImageTo4bpp ==
    /\ fn_op = "none"
    /\ \E n \in RawSizes, ok \in BOOLEAN, junk \in JunkBytes :
          \E b \in [1..n -> TestBytes] :
             /\ fn_in' = Buf(b)
             /\ fn_w' = n
             /\ fn_out' = image_to_4bpp(Buf(b), n, ok, junk)
    /\ fn_op' = "image_to_4bpp"
    /\ UNCHANGED << fn_h, fn_size >>
    /\ UNCHANGED main_vars

CallImage4bppToTile ==
    /\ fn_op = "none"
    /\ \E w \in Dims, h \in Dims, p \in Patterns, ok \in BOOLEAN,
          junk \in JunkBytes :
          /\ fn_in' = Buf(PatBuf((w * h) \div 2, p))
          /\ fn_w' = w
          /\ fn_h' = h
          /\ fn_out' = image_4bpp_to_tile(Buf(PatBuf((w * h) \div 2, p)),
                                          w, h, ok, junk)
    /\ fn_op' = "image_4bpp_to_tile"
    /\ UNCHANGED fn_size
    /\ UNCHANGED main_vars

\* the size tileset_read stores for a width x height image
CallTilesetSize ==
    /\ fn_op = "none"
    /\ \E w \in BigDims, h \in BigDims :
          /\ fn_w' = w
          /\ fn_h' = h
          /\ fn_size' = TilesetSize(w, h)
    /\ fn_op' = "tileset_size"
    /\ UNCHANGED << fn_in, fn_out >>
    /\ UNCHANGED main_vars

NextFn ==
    \/ CallImageTo4bpp
    \/ CallImage4bppToTile
    \/ CallTilesetSize

SpecFn == Init /\ [][NextFn]_vars


(***************************************************************************)
(* Properties of the functions (specification SpecFn).                     *)
(***************************************************************************)

\* C1: image_4bpp_to_tile returns (width/8)*(height/8)*32 bytes, and output
\* byte ((ty*(width/8)+tx)*32 + r*4 + b) is input byte
\* ((ty*8+r)*(width/2) + tx*4 + b): tiles left to right then top to bottom,
\* each one a contiguous run of its 8 rows.
C1_TileOrder ==
    (fn_op = "image_4bpp_to_tile" /\ ~fn_out.null) =>
        /\ Len(fn_out.bytes) = (fn_w \div 8) * (fn_h \div 8) * 32
        /\ \A ty \in 0..((fn_h \div 8) - 1), tx \in 0..((fn_w \div 8) - 1),
              r \in 0..7, b \in 0..3 :
              fn_out.bytes[((ty * (fn_w \div 8) + tx) * 32 + r * 4 + b) + 1]
              = fn_in.bytes[((ty * 8 + r) * (fn_w \div 2) + tx * 4 + b) + 1]

\* a 2 x 2 tile image was extracted, and the extraction moved bytes
C1_Witness ==
    /\ fn_op = "image_4bpp_to_tile"
    /\ ~fn_out.null
    /\ fn_w = 16
    /\ fn_h = 16
    /\ fn_out.bytes # fn_in.bytes

\* C4: image_to_4bpp on N bytes (N even) returns N/2 bytes, byte i being
\* ((src[2i] & 0x0F) << 4) | (src[2i+1] & 0x0F); the upper nibbles of the
\* source have no influence.
C4_Pack ==
    (fn_op = "image_to_4bpp" /\ ~fn_out.null) =>
        /\ Len(fn_out.bytes) = Len(fn_in.bytes) \div 2
        /\ \A i \in 0..((Len(fn_in.bytes) \div 2) - 1) :
              fn_out.bytes[i + 1]
              = (fn_in.bytes[2 * i + 1] % 16) * 16 + (fn_in.bytes[2 * i + 2] % 16)

\* 0xFF 0xF0 0x0F 0x00 was packed: nibbles 0xF and 0x0 on both sides, upper
\* nibbles set and clear
C4_Witness ==
    /\ fn_op = "image_to_4bpp"
    /\ fn_in.bytes = << 255, 240, 15, 0 >>
    /\ fn_out.bytes = << 240, 240 >>

\* C8: the size field equals (width/8)*(height/8), the number of tiles of
\* the buffer, also when that number exceeds 65535.
C8_SizeIsTileCount ==
    fn_op = "tileset_size" => fn_size = (fn_w \div 8) * (fn_h \div 8)

\* the raster buffer whose extraction is the tile buffer T: raster byte
\* ((ty*8+r)*(width/2) + tx*4 + b) is T's byte ((ty*(width/8)+tx)*32+r*4+b)
TileToRaster(T, width, height) ==
    [k \in 1..Len(T) |->
        LET row == (k - 1) \div (width \div 2)
            col == (k - 1) % (width \div 2)
        IN  T[(((row \div 8) * (width \div 8) + (col \div 4)) * 32
               + (row % 8) * 4 + (col % 4)) + 1]]

\* C10: for a tile buffer T of a width x height image, extracting the
\* raster reassembled from T gives T again; with width 8 the extraction
\* leaves the buffer as it is.
C10_RoundTrip ==
    (fn_op = "image_4bpp_to_tile" /\ ~fn_out.null) =>
        /\ image_4bpp_to_tile(Buf(TileToRaster(fn_in.bytes, fn_w, fn_h)),
                              fn_w, fn_h, TRUE, 0).bytes = fn_in.bytes
        /\ fn_w = 8 => fn_out.bytes = fn_in.bytes

\* a 2 x 2 tile buffer whose reassembled raster differs from it
C10_Witness ==
    /\ fn_op = "image_4bpp_to_tile"
    /\ ~fn_out.null
    /\ fn_w = 16
    /\ fn_h = 16
    /\ TileToRaster(fn_in.bytes, fn_w, fn_h) # fn_in.bytes


(***************************************************************************)
(* Properties of a run (specification Spec).                               *)
(***************************************************************************)

\* the last tileset_read was given cur, and last holds what it returned
JustRead == pc \in {"readdir", "summary"} /\ cur.d_type = "DT_REG"

\* the low nibble of pixel (x, y) of the 8bpp image e
LowNibble(e, x, y) == ImageData(e).bytes[(y * e.width + x) + 1] % 16

\* C2: for a decoded 8bpp image that passes validation, square or not, the
\* stored tile buffer has (width/8)*(height/8)*32 bytes and its byte for tile
\* (tx,ty), row r, byte b is (low nibble of pixel (8tx+2b, 8ty+r)) << 4 |
\* (low nibble of pixel (8tx+2b+1, 8ty+r)).
C2_Tiles8bpp ==
    (JustRead /\ IsSourceImage(cur) /\ cur.bitdepth = 8 /\ last.ret = 0
       /\ ~tilesets[tileset_index - 1].data.null) =>
        LET data == tilesets[tileset_index - 1].data.bytes
            tw == cur.width \div 8
            th == cur.height \div 8
        IN  /\ Len(data) = tw * th * 32
            /\ \A ty \in 0..(th - 1), tx \in 0..(tw - 1), r \in 0..7,
                  b \in 0..3 :
                  data[((ty * tw + tx) * 32 + r * 4 + b) + 1]
                  = LowNibble(cur, 8 * tx + 2 * b, 8 * ty + r) * 16
                    + LowNibble(cur, 8 * tx + 2 * b + 1, 8 * ty + r)

\* the reason the first failing check reports, by the order colour mode,
\* bit depth, palette size, width, height
FirstReason(e) ==
    CASE e.colortype # LCT_PALETTE -> MsgIndexed
      [] e.colortype = LCT_PALETTE /\ e.bitdepth \notin {4, 8} -> MsgDepth
      [] e.colortype = LCT_PALETTE /\ e.bitdepth \in {4, 8}
         /\ e.palettesize > 16 -> MsgColors
      [] e.colortype = LCT_PALETTE /\ e.bitdepth \in {4, 8}
         /\ e.palettesize <= 16 /\ e.width % 8 # 0 -> MsgWidth
      [] OTHER -> MsgHeight

FiveReasons == {MsgIndexed, MsgDepth, MsgColors, MsgWidth, MsgHeight}

\* C3: a decoded image is accepted by the validation iff it is indexed, of
\* bit depth 4 or 8, with at most 16 palette entries and width and height
\* multiples of 8; a rejection reports the reason of the first failing
\* check only, and the five reasons differ from one another.
C3_Validation ==
    (JustRead /\ cur.error = 0) =>
        LET valid == /\ cur.colortype = LCT_PALETTE
                     /\ cur.bitdepth \in {4, 8}
                     /\ cur.palettesize <= 16
                     /\ cur.width % 8 = 0
                     /\ cur.height % 8 = 0
        IN  /\ (last.msg \notin FiveReasons) <=> valid
            /\ ~valid => (last.ret # 0 /\ last.msg = FirstReason(cur))
            /\ Cardinality(FiveReasons) = 5

\* a non-indexed image whose width is no multiple of 8 was rejected as not
\* indexed
C3_Witness ==
    /\ JustRead
    /\ cur.error = 0
    /\ cur.colortype # LCT_PALETTE
    /\ cur.width % 8 # 0
    /\ last.ret # 0
    /\ last.msg = MsgIndexed

\* the catalog holds one record per file of p, in order
CatalogIs(p) ==
    /\ tileset_index = Len(p)
    /\ \A i \in 1..Len(p) :
          /\ tilesets[i - 1].file = p[i].file
          /\ tilesets[i - 1].name = StripExt(p[i].file)

Got4bpp(f) == ~f.no4bpp

\* a step of a run never removes, reorders or rewrites a record: the count
\* does not decrease and the name, size and data of every record stay
AppendOnly ==
    /\ tileset_index' >= tileset_index
    /\ \A i \in 0..(tileset_index - 1) :
          /\ tilesets'[i].file = tilesets[i].file
          /\ tilesets'[i].name = tilesets[i].name
          /\ tilesets'[i].size = tilesets[i].size
          /\ tilesets'[i].data = tilesets[i].data

\* a file the decoder or the validator rejects leaves the count and the
\* catalog as they are, and the loop goes on
RejectionSkips ==
    (pc = "readdir" /\ nread' = nread + 1 /\ ~capacity_error'
       /\ cur'.d_type = "DT_REG" /\ ~IsSourceImage(cur')) =>
        /\ tileset_index' = tileset_index
        /\ tilesets' = tilesets
        /\ pc' = "readdir"
        /\ exit_status' = "running"

\* C5 as stated: the catalog holds exactly one record per file that decoded
\* and passed validation, in discovery order.
C5_OnePerValidFile == CatalogIs(passed)

\* C5, amended: the catalog holds exactly one record per file that decoded,
\* passed validation and was not skipped because the Depth Normalizer could
\* not allocate, in discovery order; a rejected file does not abort the
\* batch nor advance the count, and no record's name, size or data changes.
C5_AppendOnly ==
    /\ [](CatalogIs(SelectSeq(passed, Got4bpp)))
    /\ [][AppendOnly /\ RejectionSkips]_vars

\* a directory run holds one record and has just skipped a rejected file
C5_Witness ==
    /\ pc = "readdir"
    /\ nread = 2
    /\ tileset_index = 1
    /\ cur.d_type = "DT_REG"
    /\ ~IsSourceImage(cur)
    /\ last.ret # 0
    /\ ~tilesets[0].data.null

\* C6: when the Tile Extractor (or the Depth Normalizer) cannot allocate,
\* the image is skipped: no record without a data buffer is in the catalog
\* and the output stage never reads through an absent buffer.
C6_NoRecordWithoutData ==
    /\ \A i \in 0..(tileset_index - 1) : ~tilesets[i].data.null
    /\ ~null_read

\* the source images among the entries readdir has returned
SourceImagesSeen ==
    Len(passed) + (IF capacity_error /\ IsSourceImage(cur) THEN 1 ELSE 0)

\* C7: a directory run ends in CapacityError exactly when the batch has
\* more source images than the capacity; other entries never raise it.
C7_CapacityError ==
    /\ tileset_index <= MAX_TILESETS
    /\ capacity_error => (exit_status = "EXIT_FAILURE" /\ c_file = "unopened"
                          /\ h_file = "unopened")
    /\ capacity_error <=> SourceImagesSeen > MAX_TILESETS

\* C9: a run that ends with success after reading at least one tileset has
\* written both the header and the source file.
C9_SuccessMeansWritten ==
    (exit_status = "EXIT_SUCCESS" /\ tileset_index > 0) =>
        (h_file = "written" /\ c_file = "written")


(***************************************************************************)
(* Properties of the heap traffic of tileset_read (specification Spec).    *)
(***************************************************************************)

\* the positions of h where allocation buf is freed
FreesOf(h, buf) == {i \in 1..Len(h) : h[i].op = "free" /\ h[i].buf = buf}

AllocatedIn(h, buf) == \E i \in 1..Len(h) : h[i].op = "alloc" /\ h[i].buf = buf

\* every read and write of h falls inside the allocation it touches
InBounds(h) ==
    \A i \in 1..Len(h) :
        h[i].op \in {"read", "write"} =>
            \E j \in 1..(i - 1) :
                h[j].op = "alloc" /\ h[j].buf = h[i].buf /\ h[i].n <= h[j].n

\* no read or write of h touches an allocation already freed
NoUseAfterFree(h) ==
    \A i \in 1..Len(h) :
        h[i].op \in {"read", "write"} =>
            \A j \in FreesOf(h, h[i].buf) : i < j

\* C11: for every image that passes validation, 4bpp or 8bpp, square or
\* not, each byte image_to_4bpp reads lies inside the decoded buffer, each
\* byte image_4bpp_to_tile reads lies inside the buffer it is given, and
\* each byte it writes lies inside its output.
C11_AccessesInBounds ==
    (JustRead /\ IsSourceImage(cur)) => InBounds(heap)

\* C12: on every path of tileset_read after a successful decode the decoded
\* buffer and, if created, the normalized buffer are freed exactly once and
\* never read after that; the stored tile buffer is an allocation of its
\* own, which tileset_read does not free.
C12_FreedOnce ==
    (JustRead /\ cur.error = 0) =>
        /\ \A buf \in {"image_data", "image_4bpp"} :
              AllocatedIn(heap, buf) => Cardinality(FreesOf(heap, buf)) = 1
        /\ NoUseAfterFree(heap)
        /\ FreesOf(heap, "tiles") = {}
        /\ (last.ret = 0 /\ ~tilesets[tileset_index - 1].data.null)
              => AllocatedIn(heap, "tiles")

====
